---- MODULE Spec2Model ----
(***************************************************************************)
(* AgentOne: the plan -> execute -> summarize loop of AIAgent (agent.py),  *)
(* the tool registry it dispatches to and its four tools (tools.py), the   *)
(* provider configuration (config.py) and the transcript commands of the   *)
(* interactive shell (main.py).                                            *)
(*                                                                         *)
(* Four specifications share the state: Spec is a session of the shell,    *)
(* SpecApi a client of AIAgent's methods, SpecTools a client of the        *)
(* registry and of the constructor, SpecHistory a caller working on the    *)
(* list get_conversation_history returned.                                 *)
(*                                                                         *)
(* Conventions of the translation                                          *)
(*   Optional[T]   None is <<>>, a value v is <<v>>.                       *)
(*   str           a message is a sequence of parts, so that an f-string   *)
(*                 keeps the values it interpolates: f"tool missing: {n}"  *)
(*                 is <<"tool missing: ", n>>.  The Chinese literals of    *)
(*                 the source are written in English.                      *)
(*   dict          a record with a field "keys" (the keys present) and one *)
(*                 field per key the program reads.                        *)
(*   reply text    a sequence of tokens: whitespace " ", the three         *)
(*                 backquotes of a code fence "fence", the language tag    *)
(*                 and a JSON document are one token each.                 *)
(***************************************************************************)
EXTENDS Naturals, Integers, Sequences, FiniteSets, TLC

VARIABLES
    conversation_history,   \* AIAgent.conversation_history
    now,                    \* the clock read by datetime.now()
    files,                  \* the files save/load name: filename -> JSON document
    pc,                     \* position of the running call
    task,                   \* execute_task: the task argument
    steps,                  \* the TaskStep objects of the current plan
    idx,                    \* execute_task: position of "for step in steps"
    cur,                    \* the step last passed to execute_step (0: none yet)
    successful_steps,       \* execute_task: local tally
    failed_steps,           \* execute_task: local tally
    result,                 \* what the last execute_task returned (None before, and when it raised)
    raised,                 \* TRUE when the last call ended by raising to its caller
    returned,               \* what the last execute_step returned
    tool_result,            \* what the last execute_tool call returned or raised (None: no call)
    tool_call,              \* the arguments of the last direct execute_tool call
    plan_reply,             \* what the backend answered to the last planning call
    summary_reply,          \* what the backend answered to the last summarization call
    held,                   \* TRUE when a client holds the TaskStep objects of steps
    executed,               \* per step of the plan: how often execute_step ran it
    last,                   \* the kind of the last operation of the session
    shown,                  \* what get_conversation_history returned to the 'history' command
    saved,                  \* the transcript as it was at the last successful save
    fs,                     \* the files of the machine: absolute path -> characters, None if missing
    cwd,                    \* the working directory of the process
    wrote,                  \* per file: the string of the last successful write of the file tool
    catalog,                \* what the last list_tools call returned (None: another call since)
    described,              \* what the last get_tools_description call returned
    model_provider,         \* the provider string the agent was built from
    model_config,           \* AIAgent.model_config
    calls,                  \* the backend and tool invocations of the last execute_task call, in order
    handed,                 \* the list a caller got from get_conversation_history and still holds
    sent                    \* the messages of the last chat_completion call (<<>>: none yet)

vars == <<conversation_history, now, files, pc, task, steps, idx, cur,
          successful_steps, failed_steps, result, raised, returned,
          tool_result, tool_call, plan_reply, summary_reply, held, executed,
          last, shown, saved, fs, cwd, wrote, catalog, described, model_provider,
          model_config, calls, handed, sent>>

\* what the registry and the constructor last answered
setup == <<catalog, described, model_provider, model_config>>

\* the operating-system state the tools act on
disk == <<fs, cwd, wrote>>

\* ---------------------------------------------------------------- bounds
MaxSteps == 2       \* longest JSON array the backend replies with
MaxClock == 3       \* a call starts only if the clock leaves room for its transcript entries

\* ---------------------------------------------------------------- values
None == <<>>

Some(v) == <<v>>

\* Python truthiness of an Optional[str]: None and "" are falsy
Truthy(o) == o # None /\ o[1] # ""

Tasks == {"t1", "t2"}

\* ------------------------------------------------------------ tools.py
\* ToolManager.__init__: the registry
tools == {"terminal", "file", "web", "math"}

\* the keyword parameters of each provider's execute()
execute_params(name) ==
    CASE name = "terminal" -> {"command", "cwd"}
      [] name = "file"     -> {"action", "file_path", "content"}
      [] name = "web"      -> {"method", "url", "data", "headers"}
      [] name = "math"     -> {"expression"}

\* those without a default value
execute_required(name) ==
    CASE name = "terminal" -> {"command"}
      [] name = "file"     -> {"action", "file_path"}
      [] name = "web"      -> {"method", "url"}
      [] name = "math"     -> {"expression"}

\* Tool.description of each provider
tool_description(name) ==
    CASE name = "terminal" -> "runs terminal commands"
      [] name = "file"     -> "reads and writes files"
      [] name = "web"      -> "sends web requests"
      [] name = "math"     -> "computes mathematical expressions"

\* Tool.get_parameters_info of each provider: parameter -> meaning, in the
\* order of the dict
get_parameters_info(name) ==
    CASE name = "terminal" -> << <<"command", "the command to run">>,
                                 <<"cwd", "working directory (optional)">> >>
      [] name = "file"     -> << <<"action", "kind of operation (read/write/exists)">>,
                                 <<"file_path", "path of the file">>,
                                 <<"content", "content of the file (for write)">> >>
      [] name = "web"      -> << <<"method", "HTTP method (get/post)">>,
                                 <<"url", "URL of the request">>,
                                 <<"data", "data of the request (optional)">>,
                                 <<"headers", "headers of the request (optional)">> >>
      [] name = "math"     -> << <<"expression", "mathematical expression">> >>

\* "\n".join(lines)
RECURSIVE join(_)
join(lines) ==
    IF lines = <<>> THEN <<>>
    ELSE IF Len(lines) = 1 THEN lines[1]
    ELSE lines[1] \o <<"\n">> \o join(Tail(lines))

\* Tool.get_full_description
get_full_description(name) ==
    LET params_info == get_parameters_info(name)
        params_desc == [k \in 1..Len(params_info) |->
                           <<"  - ", params_info[k][1], ": ", params_info[k][2]>>]
    IN  IF params_info = <<>> THEN <<"- ", name, ": ", tool_description(name)>>
        ELSE <<"- ", name, ": ", tool_description(name), "\n">> \o join(params_desc)

\* a keyword mapping: a set of <<name, value>> pairs, one per name
KwKeys(kv) == {p[1] : p \in kv}

KwHas(kv, k) == k \in KwKeys(kv)

KwGet(kv, k) == IF KwHas(kv, k) THEN Some((CHOOSE p \in kv : p[1] = k)[2]) ELSE None

\* a Tool Outcome (the dict a provider returns) or, when the call raised,
\* the exception: exc = TRUE and error = str(e).  The payload keys the
\* properties read are fields; a key that is absent holds None.
Outcome(ks, ok, err) ==
    [exc |-> FALSE, keys |-> ks, success |-> ok, error |-> err, message |-> <<>>,
     content |-> None, exists |-> None, result |-> None, return_code |-> None,
     stdout |-> None]

Raise(msg) == [Outcome({}, FALSE, msg) EXCEPT !.exc = TRUE]

\* dict.get(key, default) on an outcome
GetSuccess(r) == IF "success" \in r.keys THEN r.success ELSE FALSE

\* GetError without the default of line 171
GetErrorNoDefault(r) == r.error

GetError(r) == IF "error" \in r.keys THEN r.error ELSE <<"unknown error">>

\* what the operating system, the network or eval() answers to a provider
Envs == {"ok", "fail", "timeout", "oserror"}

\* the directories and file names of the machine, and the paths a caller names
Dirs == {"/work", "/tmp"}

Names == {"a.txt"}

AbsPaths == Dirs \X Names

\* open(), os.path.exists(): a relative path is resolved against the
\* working directory of the process
Resolve(p) == IF p = "/tmp/a.txt" THEN <<"/tmp", "a.txt">> ELSE <<cwd, p>>

\* a str as its characters
chars(s) ==
    CASE s = "Hello"   -> <<"H", "e", "l", "l", "o">>
      [] s = "a\r\nb"  -> <<"a", "\r", "\n", "b">>
      [] s = ""        -> <<>>
      [] OTHER         -> <<s>>

\* f.read() of a file opened in text mode without newline=: "\r\n" and
\* "\r" are translated to "\n"
RECURSIVE universal_newlines(_)
universal_newlines(cs) ==
    IF cs = <<>> THEN <<>>
    ELSE IF Head(cs) = "\r"
         THEN <<"\n">> \o universal_newlines(
                  IF Len(cs) >= 2 /\ cs[2] = "\n" THEN SubSeq(cs, 3, Len(cs)) ELSE Tail(cs))
         ELSE <<Head(cs)>> \o universal_newlines(Tail(cs))

\* the file at an absolute path: None when there is none
FileAt(ap) == IF ap \in DOMAIN fs THEN fs[ap] ELSE None

\* path_exists that always answers true
path_exists_always(ap) == TRUE

\* os.path.exists
path_exists(ap) == FileAt(ap) # None

\* what the subprocess printed
captured(command) == <<"output of ", command>>

\* TimedOut as an exception that leaves the provider
TimedOutRaised(command) == Raise(<<"timed out after 30 seconds">>)

\* tools.py 67-72: subprocess.TimeoutExpired
TimedOut(command) == Outcome({"success", "error", "command"}, FALSE, <<"command timed out">>)

\* tools.py 53-66: the command ran to its end with this return code
Completed(command, returncode) ==
    [Outcome({"success", "stdout", "stderr", "return_code", "command"}, returncode = 0, <<>>)
        EXCEPT !.return_code = Some(returncode), !.stdout = Some(captured(command))]

\* os.chdir(cwd) succeeds
ChdirOk(kv, env) == KwGet(kv, "cwd")[1] \in Dirs /\ env # "oserror"

\* TerminalTool.execute
TerminalTool(kv, env) ==
    LET command == KwGet(kv, "command")[1]
    IN  IF Truthy(KwGet(kv, "cwd")) /\ ~ChdirOk(kv, env)
        THEN Outcome({"success", "error", "command"}, FALSE,
                     <<"[Errno 2] No such file or directory">>)
        ELSE CASE env = "timeout" -> TimedOut(command)
               [] env = "oserror" ->
                    Outcome({"success", "error", "command"}, FALSE, <<"subprocess error">>)
               [] env = "fail"    -> Completed(command, 1)
               [] OTHER           -> Completed(command, 0)

\* TerminalToolCwd that puts the working directory back after the command
TerminalToolCwdRestored(kv, env) == cwd

\* the working directory after TerminalTool.execute
TerminalToolCwd(kv, env) ==
    IF Truthy(KwGet(kv, "cwd")) /\ ChdirOk(kv, env) THEN KwGet(kv, "cwd")[1] ELSE cwd

\* FileTool.execute; env says whether the system grants the access
FileTool(kv, env) ==
    LET action == KwGet(kv, "action")[1]
        file_path == KwGet(kv, "file_path")[1]
        content == KwGet(kv, "content")
        failure(msg) == Outcome({"success", "error", "action", "file_path"}, FALSE, msg)
    IN  CASE action = "read" ->
                IF FileAt(Resolve(file_path)) = None
                THEN failure(<<"[Errno 2] No such file or directory: ", file_path>>)
                ELSE IF env # "ok"
                THEN failure(<<"[Errno 13] Permission denied: ", file_path>>)
                ELSE [Outcome({"success", "action", "file_path", "content"}, TRUE, <<>>)
                         EXCEPT !.content =
                             Some(universal_newlines(FileAt(Resolve(file_path))[1]))]
          [] action = "write" ->
                IF content = None
                THEN failure(<<"write needs content">>)
                ELSE IF env = "ok"
                     THEN [Outcome({"success", "action", "file_path", "message"}, TRUE, <<>>)
                              EXCEPT !.message = <<"file written">>]
                     ELSE failure(<<"[Errno 13] Permission denied: ", file_path>>)
          [] action = "exists" ->
                [Outcome({"success", "action", "file_path", "exists"}, TRUE, <<>>)
                    EXCEPT !.exists = Some(path_exists(Resolve(file_path)))]
          [] OTHER ->
                Outcome({"success", "error"}, FALSE, <<"unsupported action: ", action>>)

\* f.write(content) happened
Wrote(kv, env) ==
    KwGet(kv, "action")[1] = "write" /\ KwGet(kv, "content") # None /\ env = "ok"

\* the files after FileTool.execute
FileToolFs(kv, env) ==
    IF Wrote(kv, env)
    THEN [fs EXCEPT ![Resolve(KwGet(kv, "file_path")[1])] = Some(chars(KwGet(kv, "content")[1]))]
    ELSE fs

\* str.lower() on the method names the model uses
lower(m) == CASE m = "GET" -> "get" [] m = "POST" -> "post" [] OTHER -> m

\* WebTool.execute
WebTool(kv, env) ==
    LET method == KwGet(kv, "method")[1]
    IN  IF lower(method) \notin {"get", "post"}
        THEN Outcome({"success", "error"}, FALSE, <<"unsupported HTTP method: ", method>>)
        ELSE IF env = "ok"
             THEN Outcome({"success", "method", "url", "status_code", "headers", "content"},
                          TRUE, <<>>)
             ELSE Outcome({"success", "error", "method", "url"}, FALSE, <<"connection error">>)

\* ---- eval(expression, {"__builtins__": {}}, allowed_names), tools.py 225
\* tools.py 216-219
allowed_names == {"abs", "round", "min", "max", "sum", "len", "int", "float"}

\* the tokens of the expressions the model uses
Lex(s) ==
    CASE s = "1"                     -> <<"1">>
      [] s = "2 + 3 * 4"             -> <<"2", "+", "3", "*", "4">>
      [] s = "(2 + 3) * 4"           -> <<"(", "2", "+", "3", ")", "*", "4">>
      [] s = "abs(-5) + max(2, 3)"   -> <<"abs", "(", "-", "5", ")", "+",
                                          "max", "(", "2", ",", "3", ")">>
      [] s = "2 +"                   -> <<"2", "+">>
      [] s = "1 // 0"                -> <<"1", "//", "0">>
      [] s = "__import__('os')"      -> <<"__import__", "(", "'os'", ")">>
      [] s = "1 or __import__('os')" -> <<"1", "or", "__import__", "(", "'os'", ")">>
      [] s = "0 or __import__('os')" -> <<"0", "or", "__import__", "(", "'os'", ")">>
      [] s = "eval('1')"             -> <<"eval", "(", "'1'", ")">>
      [] OTHER                       -> <<s>>

Digits == {"0", "1", "2", "3", "4", "5"}

NumVal(tok) ==
    CASE tok = "0" -> 0 [] tok = "1" -> 1 [] tok = "2" -> 2
      [] tok = "3" -> 3 [] tok = "4" -> 4 [] tok = "5" -> 5

StrLits == {"'os'", "'1'"}

\* the characters of a string literal
unquote(tok) == CASE tok = "'os'" -> <<"o", "s">> [] tok = "'1'" -> <<"1">> [] OTHER -> <<>>

Punct == {"+", "-", "*", "//", "(", ")", ",", "or", "and", "<end>"}

IsName(tok) == tok \notin Digits \cup StrLits \cup Punct

\* tools.py 222: expression.replace('eval', '').replace('exec', '')
replace(ts) == SelectSeq(ts, LAMBDA tok : tok \notin {"eval", "exec"})

\* Python values
IntV(n) == [t |-> "int", n |-> n, s |-> ""]

FloatV(n) == [t |-> "float", n |-> n, s |-> ""]

StrV(tok) == [t |-> "str", n |-> 0, s |-> tok]

FuncV(name) == [t |-> "func", n |-> 0, s |-> name]

TruthyV(v) ==
    CASE v.t \in {"int", "float"} -> v.n # 0
      [] v.t = "str"              -> unquote(v.s) # <<>>
      [] OTHER                    -> TRUE

\* the result of evaluating a piece of the expression: its value and the
\* position after it, or the exception
Val(v, i) == [ok |-> TRUE, v |-> v, i |-> i, err |-> <<>>]

Err(msg, i) == [ok |-> FALSE, v |-> IntV(0), i |-> i, err |-> msg]

At(ts, i) == IF i <= Len(ts) THEN ts[i] ELSE "<end>"

AllInt(vs) == \A k \in 1..Len(vs) : vs[k].t = "int"

\* a call of one of the allowed functions
Apply(f, vs, i) ==
    CASE f = "abs" /\ Len(vs) = 1 /\ AllInt(vs) ->
            Val(IntV(IF vs[1].n < 0 THEN 0 - vs[1].n ELSE vs[1].n), i)
      [] f = "max" /\ Len(vs) >= 2 /\ AllInt(vs) ->
            Val(IntV(CHOOSE x \in {vs[k].n : k \in 1..Len(vs)} :
                         \A k \in 1..Len(vs) : x >= vs[k].n), i)
      [] f = "min" /\ Len(vs) >= 2 /\ AllInt(vs) ->
            Val(IntV(CHOOSE x \in {vs[k].n : k \in 1..Len(vs)} :
                         \A k \in 1..Len(vs) : x <= vs[k].n), i)
      [] f \in {"int", "round"} /\ Len(vs) = 1 /\ AllInt(vs) -> Val(vs[1], i)
      [] f = "int" /\ Len(vs) = 1 /\ vs[1].t = "str" /\ vs[1].s = "'1'" -> Val(IntV(1), i)
      [] f = "float" /\ Len(vs) = 1 /\ AllInt(vs) -> Val(FloatV(vs[1].n), i)
      [] f = "len" /\ Len(vs) = 1 /\ vs[1].t = "str" -> Val(IntV(Len(unquote(vs[1].s))), i)
      [] OTHER -> Err(<<"bad argument for ", f>>, i)

\* the operators, applied to numbers
BinOp(op, a, b, i) ==
    IF a.t # "int" \/ b.t # "int" THEN Err(<<"unsupported operand type(s) for ", op>>, i)
    ELSE CASE op = "+"  -> Val(IntV(a.n + b.n), i)
           [] op = "-"  -> Val(IntV(a.n - b.n), i)
           [] op = "*"  -> Val(IntV(a.n * b.n), i)
           [] op = "//" -> IF b.n = 0 THEN Err(<<"integer division or modulo by zero">>, i)
                           ELSE Val(IntV(a.n \div b.n), i)

\* the binary operators by increasing binding strength
OpsAt(k) ==
    CASE k = 1 -> {"or"} [] k = 2 -> {"and"} [] k = 3 -> {"+", "-"} [] k = 4 -> {"*", "//"}

\* the value of "l op r" once both operands are known; or and and yield one
\* of their operands
Combine(op, lv, r, live) ==
    IF ~live THEN Val(IntV(0), r.i)
    ELSE CASE op = "or"  -> Val(IF TruthyV(lv) THEN lv ELSE r.v, r.i)
           [] op = "and" -> Val(IF TruthyV(lv) THEN r.v ELSE lv, r.i)
           [] OTHER      -> BinOp(op, lv, r.v, r.i)

\* the evaluation follows the grammar: EvalExpr(k, ..) reads an operand of
\* the operators of strength k - 1 (k = 5: a sign, a literal, a name, a call
\* or a parenthesis).  live = FALSE in the operand that "or" and "and" skip,
\* where names are not looked up and nothing is called
RECURSIVE EvalExpr(_, _, _, _), EvalRest(_, _, _, _), EvalArgs(_, _, _, _)
EvalExpr(k, ts, i, live) ==
    LET tok == At(ts, i)
    IN  IF k < 5 THEN EvalRest(k, ts, EvalExpr(k + 1, ts, i, live), live)
        ELSE CASE tok = "-" ->
                    LET r == EvalExpr(5, ts, i + 1, live)
                    IN  IF ~r.ok \/ ~live THEN r ELSE BinOp("-", IntV(0), r.v, r.i)
               [] tok \in Digits  -> Val(IntV(NumVal(tok)), i + 1)
               [] tok \in StrLits -> Val(StrV(tok), i + 1)
               [] tok = "(" ->
                    LET r == EvalExpr(1, ts, i + 1, live)
                    IN  IF ~r.ok THEN r
                        ELSE IF At(ts, r.i) = ")" THEN Val(r.v, r.i + 1)
                        ELSE Err(<<"invalid syntax">>, r.i)
               [] IsName(tok) ->
                    IF live /\ tok \notin allowed_names
                    THEN Err(<<"name '", tok, "' is not defined">>, i)
                    ELSE IF At(ts, i + 1) # "(" THEN Val(FuncV(tok), i + 1)
                    ELSE LET a == EvalArgs(ts, i + 2, live, <<>>)
                         IN  IF ~a.ok THEN a
                             ELSE IF live THEN Apply(tok, a.v, a.i) ELSE Val(IntV(0), a.i)
               [] OTHER -> Err(<<"invalid syntax">>, i)

\* the operators of strength k that follow the operand l, left to right
EvalRest(k, ts, l, live) ==
    IF ~l.ok \/ At(ts, l.i) \notin OpsAt(k) THEN l
    ELSE LET op == At(ts, l.i)
             rlive == CASE op = "or"  -> live /\ ~TruthyV(l.v)
                        [] op = "and" -> live /\ TruthyV(l.v)
                        [] OTHER      -> live
             r == EvalExpr(k + 1, ts, l.i + 1, rlive)
         IN  IF ~r.ok THEN r ELSE EvalRest(k, ts, Combine(op, l.v, r, live), live)

\* the arguments of a call, up to the closing parenthesis
EvalArgs(ts, i, live, acc) ==
    IF At(ts, i) = ")" /\ acc = <<>> THEN Val(acc, i + 1)
    ELSE LET r == EvalExpr(1, ts, i, live)
         IN  IF ~r.ok THEN r
             ELSE IF At(ts, r.i) = ")" THEN Val(Append(acc, r.v), r.i + 1)
             ELSE IF At(ts, r.i) = "," THEN EvalArgs(ts, r.i + 1, live, Append(acc, r.v))
             ELSE Err(<<"invalid syntax">>, r.i)

\* eval: the expression is compiled as a whole, then evaluated
eval(ts) ==
    LET syntax == EvalExpr(1, ts, 1, FALSE)
    IN  IF ~syntax.ok \/ syntax.i # Len(ts) + 1 THEN Err(<<"invalid syntax">>, 1)
        ELSE EvalExpr(1, ts, 1, TRUE)

\* MathTool.execute
MathTool(kv, env) ==
    LET r == eval(replace(Lex(KwGet(kv, "expression")[1])))
    IN  IF r.ok
        THEN [Outcome({"success", "expression", "result"}, TRUE, <<>>)
                 EXCEPT !.result = Some(r.v)]
        ELSE Outcome({"success", "error", "expression"}, FALSE, r.err)

\* tool.execute(kwargs): Python binds the keywords to the signature before
\* the body (and its try) is entered
ToolExecute(name, kv, env) ==
    IF ~(KwKeys(kv) \subseteq execute_params(name))
    THEN Raise(<<"execute() got an unexpected keyword argument">>)
    ELSE IF ~(execute_required(name) \subseteq KwKeys(kv))
    THEN Raise(<<"execute() missing required positional argument">>)
    ELSE CASE name = "terminal" -> TerminalTool(kv, env)
           [] name = "file"     -> FileTool(kv, env)
           [] name = "web"      -> WebTool(kv, env)
           [] name = "math"     -> MathTool(kv, env)

\* ToolManager.get_tool
get_tool(name) == IF name \in tools THEN Some(name) ELSE None

\* the keys of self.tools in the order of the dict
tool_names == <<"terminal", "file", "web", "math">>

\* list_tools without its last entry
list_tools_short ==
    [k \in 1..(Len(tool_names) - 1) |->
        [name |-> tool_names[k], description |-> tool_description(tool_names[k])]]

\* ToolManager.list_tools
list_tools ==
    [k \in 1..Len(tool_names) |->
        [name |-> tool_names[k], description |-> tool_description(tool_names[k])]]

\* ToolManager.get_tools_description
get_tools_description ==
    join([k \in 1..Len(tool_names) |-> get_full_description(tool_names[k])])

\* ToolManager.execute_tool(tool_name, kwargs)
execute_tool(tool_name, kv, env) ==
    IF KwHas(kv, "tool_name") \/ KwHas(kv, "self")
    THEN Raise(<<"execute_tool() got multiple values for argument">>)
    ELSE IF get_tool(tool_name) # None
         THEN ToolExecute(tool_name, kv, env)
         ELSE Outcome({"success", "error"}, FALSE, <<"tool does not exist: ", tool_name>>)

\* the call reaches the body of the provider's execute()
Enters(tool_name, kv) ==
    /\ ~(KwHas(kv, "tool_name") \/ KwHas(kv, "self"))
    /\ get_tool(tool_name) # None
    /\ KwKeys(kv) \subseteq execute_params(tool_name)
    /\ execute_required(tool_name) \subseteq KwKeys(kv)

\* the files and the working directory after execute_tool
execute_tool_fs(tool_name, kv, env) ==
    IF Enters(tool_name, kv) /\ tool_name = "file" THEN FileToolFs(kv, env) ELSE fs

execute_tool_cwd(tool_name, kv, env) ==
    IF Enters(tool_name, kv) /\ tool_name = "terminal" THEN TerminalToolCwd(kv, env) ELSE cwd

\* the record of the strings written, after execute_tool
execute_tool_wrote(tool_name, kv, env) ==
    IF Enters(tool_name, kv) /\ tool_name = "file" /\ Wrote(kv, env)
    THEN [wrote EXCEPT ![Resolve(KwGet(kv, "file_path")[1])] = KwGet(kv, "content")]
    ELSE wrote

\* ----------------------------------------------------------- config.py
\* the provider strings a caller passes
Providers == {"openai", "ollama", "deepseek", "azure", ""}

DEFAULT_MODEL == [provider |-> "openai", model_name |-> "gpt-3.5-turbo"]

OLLAMA_CONFIG == [provider |-> "ollama", model_name |-> "llama2"]

DEEPSEEK_CONFIG == [provider |-> "deepseek", model_name |-> "deepseek-chat"]

\* get_model_config that builds a configuration for whatever it is given
get_model_config_any(provider) ==
    CASE provider = "ollama"   -> OLLAMA_CONFIG
      [] provider = "deepseek" -> DEEPSEEK_CONFIG
      [] OTHER                 -> [DEFAULT_MODEL EXCEPT !.provider = provider]

\* Config.get_model_config: configs.get(provider, cls.DEFAULT_MODEL)
get_model_config(provider) ==
    CASE provider = "openai"   -> DEFAULT_MODEL
      [] provider = "ollama"   -> OLLAMA_CONFIG
      [] provider = "deepseek" -> DEEPSEEK_CONFIG
      [] OTHER                 -> DEFAULT_MODEL

\* LLMClient.chat_completion: the method the provider selects
chat_completion(config) ==
    CASE config.provider = "openai"   -> "_openai_chat"
      [] config.provider = "ollama"   -> "_ollama_chat"
      [] config.provider = "deepseek" -> "_deepseek_chat"
      [] OTHER                        -> "ValueError"

\* ------------------------------------------------------------ agent.py
\* TaskStep.__init__
TaskStep(step_id, description, tool_name, parameters) ==
    [step_id |-> step_id,
     description |-> description,
     tool_name |-> tool_name,
     parameters |-> IF parameters.kind = "null" \/ parameters = [kind |-> "dict", kv |-> {}]
                    THEN [kind |-> "dict", kv |-> {}]       \* parameters or {}
                    ELSE parameters,
     status |-> "pending",
     result |-> None,
     error |-> None]

\* TaskStep.to_dict
to_dict(step) == step

\* a JSON value used as "parameters": an object, null, or a non-empty array
Dict(kv) == [kind |-> "dict", kv |-> kv]

JNull == [kind |-> "null", kv |-> {}]

JList == [kind |-> "list", kv |-> {}]

\* a JSON object used as an element of the step array
StepData(ks, id, d, t, p) ==
    [keys |-> ks, step_id |-> id, description |-> d, tool_name |-> t, parameters |-> p]

AllKeys == {"step_id", "description", "tool_name", "parameters"}

\* the step objects the backend may put in its array
StepObjs ==
    { StepData({"step_id", "description", "parameters"}, 1, <<"say hello">>, None,
               Dict({<<"command", "ls">>})),
      StepData(AllKeys, 2, <<"compute">>, Some("math"), Dict({<<"expression", "2 + 3 * 4">>})),
      StepData(AllKeys, 1, <<"list files">>, Some("terminal"),
               Dict({<<"command", "ls">>, <<"cwd", "/tmp">>})),
      StepData(AllKeys, 3, <<"">>, Some("nosuch"), Dict({})),
      StepData(AllKeys, 4, <<"shadowed">>, Some("nosuch"), Dict({<<"tool_name", "math">>})),
      StepData(AllKeys, 5, <<"no argument">>, Some("math"), JNull),
      StepData(AllKeys, 6, <<"array parameters">>, Some("file"), JList),
      StepData(AllKeys, 7, <<"unnamed tool">>, Some(""), Dict({<<"expression", "1">>})),
      StepData(AllKeys, 8, <<"write a file">>, Some("file"),
               Dict({<<"action", "write">>, <<"file_path", "a.txt">>, <<"content", "Hello">>})),
      StepData({"description", "tool_name"}, 0, <<"no id">>, None, JNull) }

\* the arrays of at most n step objects
RECURSIVE Arrays(_)
Arrays(n) ==
    IF n = 0 THEN {<<>>}
    ELSE Arrays(n - 1) \cup {Append(a, o) : a \in {b \in Arrays(n - 1) : Len(b) = n - 1},
                                            o \in StepObjs}

\* a token of the reply text: c is its kind, v the elements of an array
Tok(c) == [c |-> c, v |-> <<>>]

Arr(a) == [c |-> "array", v |-> a]

\* tokens that are a complete JSON document
JsonDocs == {"array", "object", "empty object", "string", "empty string", "null"}

\* the backend's answer to chat_completion: an error, None, or text
Text(t) == [kind |-> "text", text |-> t]

BackendError == [kind |-> "raise", text |-> <<>>]

NoContent == [kind |-> "none", text |-> <<>>]

PlanReplies ==
    {BackendError, NoContent, Text(<<>>), Text(<<Tok(" ")>>),
     Text(<<Tok("fence"), Tok("json"), Tok(" "), Tok("fence")>>),
     Text(<<Tok("garbage")>>),
     Text(<<Tok("object")>>), Text(<<Tok("empty object")>>),
     Text(<<Tok("string")>>), Text(<<Tok("empty string")>>), Text(<<Tok("null")>>)}
    \cup {Text(<<Arr(a)>>) : a \in Arrays(MaxSteps)}
    \cup {Text(<<Tok("fence"), Tok(tag), Tok(" "), Arr(a), Tok(" "), Tok("fence")>>) :
             tag \in {"json", "JSON"}, a \in Arrays(1)}
    \cup {Text(<<Tok(" "), Tok("fence"), Tok(" "), Arr(a), Tok("fence"), Tok(" ")>>) :
             a \in Arrays(1)}

\* str.strip()
RECURSIVE lstrip(_)
lstrip(t) == IF t # <<>> /\ Head(t).c = " " THEN lstrip(Tail(t)) ELSE t

RECURSIVE rstrip(_)
rstrip(t) == IF t # <<>> /\ t[Len(t)].c = " " THEN rstrip(SubSeq(t, 1, Len(t) - 1)) ELSE t

strip(t) == rstrip(lstrip(t))

\* agent.py 111-117: remove the code fence around the reply
StripFences(t) ==
    LET a == IF Len(t) >= 2 /\ t[1].c = "fence" /\ t[2].c = "json"
             THEN SubSeq(t, 3, Len(t))                       \* response[7:]
             ELSE IF Len(t) >= 1 /\ t[1].c = "fence"
                  THEN SubSeq(t, 2, Len(t))                  \* response[3:]
                  ELSE t
    IN  IF Len(a) >= 1 /\ a[Len(a)].c = "fence"
        THEN SubSeq(a, 1, Len(a) - 1)                        \* response[:-3]
        ELSE a

\* json.loads: the text must be one JSON document
JsonOk(t) == Len(t) = 1 /\ t[1].c \in JsonDocs

\* BuildSteps that keeps the steps parsed before the faulty element
RECURSIVE BuildStepsPartial(_, _, _)
BuildStepsPartial(data, i, acc) ==
    IF i > Len(data) THEN [ok |-> TRUE, steps |-> acc]
    ELSE IF ~({"step_id", "description"} \subseteq data[i].keys)
         THEN [ok |-> acc # <<>>, steps |-> acc]
         ELSE BuildStepsPartial(data, i + 1,
                 Append(acc, TaskStep(data[i].step_id, data[i].description,
                     IF "tool_name" \in data[i].keys THEN data[i].tool_name ELSE None,
                     IF "parameters" \in data[i].keys THEN data[i].parameters
                                                       ELSE Dict({}))))

\* agent.py 133-142: the loop over steps_data; ok = FALSE when it raised
RECURSIVE BuildSteps(_, _, _)
BuildSteps(data, i, acc) ==
    IF i > Len(data) THEN [ok |-> TRUE, steps |-> acc]
    ELSE IF ~({"step_id", "description"} \subseteq data[i].keys)
         THEN [ok |-> FALSE, steps |-> acc]                  \* KeyError
         ELSE BuildSteps(data, i + 1,
                 Append(acc, TaskStep(data[i].step_id, data[i].description,
                     IF "tool_name" \in data[i].keys THEN data[i].tool_name ELSE None,
                     IF "parameters" \in data[i].keys THEN data[i].parameters
                                                       ELSE Dict({}))))

\* agent.py 150: the default step
Fallback(t) == <<TaskStep(1, <<"execute task: ", t>>, None, JNull)>>

\* AIAgent.plan_task: the steps it returns; logged = FALSE when add_message
\* at line 98 raised (the transcript is not a list)
plan_task(t, reply, logged) ==
    IF reply.kind = "raise" \/ ~logged \/ reply.kind = "none" THEN Fallback(t)
    ELSE LET r1 == strip(reply.text)
         IN  IF r1 = <<>> THEN Fallback(t)
             ELSE LET r2 == strip(StripFences(r1))
                  IN  IF r2 = <<>> \/ ~JsonOk(r2) THEN Fallback(t)
                      ELSE CASE r2[1].c = "array" ->
                                   LET b == BuildSteps(r2[1].v, 1, <<>>)
                                   IN  IF b.ok THEN b.steps ELSE Fallback(t)
                             [] r2[1].c \in {"empty object", "empty string"} -> <<>>
                             [] OTHER -> Fallback(t)      \* TypeError in the loop

\* number of steps of a list with the given status (agent.py 269)
RECURSIVE CountStatus(_, _)
CountStatus(ss, st) ==
    IF ss = <<>> THEN 0
    ELSE (IF Head(ss).status = st THEN 1 ELSE 0) + CountStatus(Tail(ss), st)

\* the f-string of agent.py 232 and 269
TallyText(s, f) ==
    Text(<<Tok("task finished. successful steps: "), Tok(ToString(s)),
           Tok(", failed steps: "), Tok(ToString(f))>>)

SummaryReplies == {BackendError, NoContent, Text(<<Tok("report")>>)}

\* generate_summary with the two counts exchanged
generate_summary_swapped(t, ss, reply) ==
    IF reply.kind = "raise"
    THEN TallyText(CountStatus(ss, "failed"), CountStatus(ss, "completed"))
    ELSE reply

\* AIAgent.generate_summary
generate_summary(t, ss, reply) ==
    IF reply.kind = "raise"
    THEN TallyText(CountStatus(ss, "completed"), CountStatus(ss, "failed"))
    ELSE reply

\* one message of the list given to chat_completion
Message(role, content) == [role |-> role, content |-> content]

\* agent.py 63-94: the messages of the planning call
PlanMessages(t) ==
    <<Message("system", <<"you are a task planner; the tools and their parameters: ",
                          get_tools_description,
                          "return the list of steps as JSON">>),
      Message("user", <<"make a plan for the task: ", t>>)>>

\* agent.py 243-245: one line per step with the mark of its status
steps_summary(ss) ==
    [i \in 1..Len(ss) |->
        <<IF ss[i].status = "completed" THEN "done" ELSE "not done",
          ss[i].step_id, ss[i].description>>]

\* agent.py 240-261: the messages of the summarization call
SummaryMessages(t, ss) ==
    <<Message("system", <<"you are a summary expert">>),
      Message("user", <<"task: ", t, "steps: ", steps_summary(ss),
                        "write a short summary of the execution">>)>>

\* AIAgent.add_message on a transcript that is a list
add_message(h, role, content, ts) ==
    [h EXCEPT !.items = Append(@, [role |-> role, content |-> content, timestamp |-> ts])]

\* the payload of a step without a tool (agent.py 177)
Ack == [Outcome({"message"}, FALSE, <<>>) EXCEPT !.message = <<"step done">>]

\* agent.py 160: execute_tool(step.tool_name, **step.parameters)
InvokeTool(step, env) ==
    IF step.parameters.kind # "dict"
    THEN Raise(<<"argument after ** must be a mapping, not list">>)
    ELSE execute_tool(step.tool_name[1], step.parameters.kv, env)

\* NoToolStep with the step marked failed
NoToolStepFailed(step) ==
    [step |-> [step EXCEPT !.status = "failed", !.result = Some(Ack)],
     value |-> FALSE, invoked |-> None]

\* agent.py 174-179: a step without a tool
NoToolStep(step) ==
    [step |-> [step EXCEPT !.status = "completed", !.result = Some(Ack)],
     value |-> TRUE, invoked |-> None]

\* StepRaised without the handler's writes: the step is left running
StepRaisedUnhandled(step, r) ==
    [step |-> step, value |-> FALSE, invoked |-> Some(r)]

\* StepRaised that stores what was raised as the step's result
StepRaisedWithResult(step, r) ==
    [step |-> [step EXCEPT !.status = "failed", !.error = Some(r.error), !.result = Some(r)],
     value |-> FALSE, invoked |-> Some(r)]

\* agent.py 181-185: the handler of an exception raised by the invocation
StepRaised(step, r) ==
    [step |-> [step EXCEPT !.status = "failed", !.error = Some(r.error)],
     value |-> FALSE, invoked |-> Some(r)]

\* StepOutcome that reports success whatever the outcome says
StepOutcomeAlwaysTrue(step, r) ==
    IF GetSuccess(r)
    THEN [step |-> [step EXCEPT !.result = Some(r), !.status = "completed"],
          value |-> TRUE, invoked |-> Some(r)]
    ELSE [step |-> [step EXCEPT !.result = Some(r), !.status = "failed",
                                !.error = Some(GetError(r))],
          value |-> TRUE, invoked |-> Some(r)]

\* agent.py 161-173: the outcome decides the step
StepOutcome(step, r) ==
    IF GetSuccess(r)
    THEN [step |-> [step EXCEPT !.result = Some(r), !.status = "completed"],
          value |-> TRUE, invoked |-> Some(r)]
    ELSE [step |-> [step EXCEPT !.result = Some(r), !.status = "failed",
                                !.error = Some(GetError(r))],
          value |-> FALSE, invoked |-> Some(r)]

\* AIAgent.execute_step after line 155: the step as it is left, the value
\* returned, and what the invocation of the tool returned or raised
execute_step(step, env) ==
    IF Truthy(step.tool_name)
    THEN LET r == InvokeTool(step, env)
         IN  IF r.exc THEN StepRaised(step, r) ELSE StepOutcome(step, r)
    ELSE NoToolStep(step)

\* the step reaches execute_tool
Invokes(step) == Truthy(step.tool_name) /\ step.parameters.kind = "dict"

\* the files and the working directory after execute_step
StepFs(step, env) ==
    IF Invokes(step) THEN execute_tool_fs(step.tool_name[1], step.parameters.kv, env) ELSE fs

StepCwd(step, env) ==
    IF Invokes(step) THEN execute_tool_cwd(step.tool_name[1], step.parameters.kv, env) ELSE cwd

StepWrote(step, env) ==
    IF Invokes(step) THEN execute_tool_wrote(step.tool_name[1], step.parameters.kv, env)
    ELSE wrote

\* ResultSteps listing the steps last to first
ResultStepsReversed(ss) == [i \in 1..Len(ss) |-> to_dict(ss[Len(ss) + 1 - i])]

\* agent.py 224: [step.to_dict() for step in steps]
ResultSteps(ss) == [i \in 1..Len(ss) |-> to_dict(ss[i])]

\* NextFailed that forgets to count
NextFailedLost(value, n) == n

\* NextIdx with the break of line 210 enabled
NextIdxBreak(value, i, n) == IF value THEN i + 1 ELSE n + 1

\* agent.py 205-208: the tallies of execute_task
NextSuccessful(value, n) == IF value THEN n + 1 ELSE n

NextFailed(value, n) == IF value THEN n ELSE n + 1

\* agent.py 204, 209-210: the loop goes on to the next step, the break is commented out
NextIdx(value, i, n) == i + 1

\* ------------------------------------------------------------- main.py
Files == {"history.json", "notes.json", "title.json"}

Absent == [kind |-> "absent", items |-> <<>>]

\* AIAgent.get_conversation_history on a transcript that has a copy() method
get_conversation_history(h) == h

\* what reaches the shell when the transcript has no such method
AttributeError == [kind |-> "raised", items |-> <<>>]

\* a JSON string and the JSON null; v is the text of the string
JString(v) == [j |-> "string", v |-> v]

JsonNull == [j |-> "null", v |-> <<>>]

\* json.dump of one transcript entry: content is a str or None
EncodeEntry(e) ==
    [role |-> JString(e.role),
     content |-> IF e.content.kind = "none" THEN JsonNull ELSE JString(e.content.text),
     timestamp |-> JString(e.timestamp)]

\* json.load of one object of the array
DecodeEntry(o) ==
    [role |-> o.role.v,
     content |-> IF o.content.j = "null" THEN NoContent ELSE Text(o.content.v),
     timestamp |-> o.timestamp.v]

\* json.dump(history, f, ensure_ascii=False, indent=2): the document written
JsonDump(h) == [kind |-> h.kind, items |-> [i \in 1..Len(h.items) |-> EncodeEntry(h.items[i])]]

\* JsonLoad that reads a null as the empty string
JsonLoadNullAsText(d) ==
    [kind |-> d.kind,
     items |-> [i \in 1..Len(d.items) |->
                   [DecodeEntry(d.items[i]) EXCEPT !.content = Text(d.items[i].content.v)]]]

\* json.load(f): the value of the document
JsonLoad(d) == [kind |-> d.kind, items |-> [i \in 1..Len(d.items) |-> DecodeEntry(d.items[i])]]

\* list.copy() at agent.py 273: a new list whose elements are the entry
\* objects of the transcript themselves.  An element of the list handed out
\* is [ref, val]: val is the entry, ref its position in the agent's
\* transcript while the two lists still share the object, 0 otherwise.
Share(h) ==
    [kind |-> h.kind, items |-> [i \in 1..Len(h.items) |-> [ref |-> i, val |-> h.items[i]]]]

\* the agent's list drops its entries (clear) or is replaced (load): the
\* caller's elements are no longer entries of the transcript
Detach(hd) ==
    IF hd = None THEN None
    ELSE Some([hd[1] EXCEPT !.items = [i \in 1..Len(@) |-> [@[i] EXCEPT !.ref = 0]]])

\* ---------------------------------------------------------- the state
Init ==
    /\ conversation_history = [kind |-> "list", items |-> <<>>]
    /\ now = 0
    /\ files = [f \in Files |->
                   CASE f = "notes.json" -> [kind |-> "object", items |-> <<>>]
                     [] f = "title.json" -> [kind |-> "string", items |-> <<>>]
                     [] OTHER            -> Absent]
    /\ pc = "idle"
    /\ task = ""
    /\ steps = <<>>
    /\ idx = 0
    /\ cur = 0
    /\ successful_steps = 0
    /\ failed_steps = 0
    /\ result = None
    /\ raised = FALSE
    /\ returned = None
    /\ tool_result = None
    /\ tool_call = None
    /\ plan_reply = NoContent
    /\ summary_reply = NoContent
    /\ held = FALSE
    /\ executed = <<>>
    /\ last = "start"
    /\ shown = None
    /\ saved = None
    /\ fs = [ap \in AbsPaths |-> None]
    /\ cwd = "/work"
    /\ wrote = [ap \in AbsPaths |-> None]
    /\ catalog = None
    /\ described = None
    /\ model_provider = "openai"
    /\ model_config = get_model_config("openai")
    /\ calls = <<>>
    /\ handed = None
    /\ sent = <<>>

Tick == IF now < MaxClock THEN now + 1 ELSE now

\* one entry of calls: kind is "plan", "summary" or "tool", step the position
\* in the plan of the step whose tool was invoked (0 for the backend)
Invocation(kind, step) == [kind |-> kind, step |-> step]

\* execute_task, lines 187-194: the task is appended to the transcript
ExecuteTaskBegin(t) ==
    /\ sent' = <<>>
    /\ UNCHANGED handed
    /\ calls' = <<>>
    /\ UNCHANGED setup
    /\ last' = "call"
    /\ shown' = None
    /\ UNCHANGED saved
    /\ UNCHANGED disk
    /\ pc = "idle"
    /\ ~held
    /\ now + 3 <= MaxClock
    /\ task' = t
    /\ steps' = <<>>
    /\ executed' = <<>>
    /\ idx' = 0
    /\ cur' = 0
    /\ successful_steps' = 0
    /\ failed_steps' = 0
    /\ result' = None
    /\ returned' = None
    /\ plan_reply' = NoContent
    /\ summary_reply' = NoContent
    /\ IF conversation_history.kind = "list"
       THEN /\ conversation_history' = add_message(conversation_history, "user",
                                                   Text(<<Tok(t)>>), now)
            /\ now' = Tick
            /\ pc' = "plan"
            /\ raised' = FALSE
       ELSE /\ raised' = TRUE           \* AttributeError: no attribute 'append'
            /\ pc' = "idle"
            /\ UNCHANGED <<conversation_history, now>>
    /\ tool_result' = None
    /\ UNCHANGED <<files, tool_call, held>>

\* the transcript after plan_task's add_message (agent.py 97-98)
LogReply(reply) ==
    IF reply.kind # "raise" /\ conversation_history.kind = "list"
    THEN add_message(conversation_history, "assistant", reply, now)
    ELSE conversation_history

\* execute_task, line 197: steps = self.plan_task(task)
ExecuteTaskPlan(reply) ==
    /\ sent' = PlanMessages(task)
    /\ UNCHANGED handed
    /\ calls' = Append(calls, Invocation("plan", 0))
    /\ UNCHANGED setup
    /\ last' = "call"
    /\ shown' = None
    /\ UNCHANGED saved
    /\ UNCHANGED disk
    /\ pc = "plan"
    /\ plan_reply' = reply
    /\ steps' = plan_task(task, reply, conversation_history.kind = "list")
    /\ executed' = [i \in 1..Len(steps') |-> 0]
    /\ conversation_history' = LogReply(reply)
    /\ now' = IF reply.kind # "raise" THEN Tick ELSE now
    /\ idx' = 1
    /\ pc' = "loop"
    /\ UNCHANGED <<files, task, cur, successful_steps, failed_steps, result, raised,
                   returned, tool_result, tool_call, summary_reply, held>>

\* execute_step, line 155, called from the loop of execute_task
ExecuteStepStart ==
    /\ UNCHANGED sent
    /\ UNCHANGED handed
    /\ UNCHANGED calls
    /\ UNCHANGED setup
    /\ last' = "call"
    /\ shown' = None
    /\ UNCHANGED saved
    /\ UNCHANGED disk
    /\ pc = "loop"
    /\ idx <= Len(steps)
    /\ cur' = idx
    /\ steps' = [steps EXCEPT ![idx].status = "running"]
    /\ pc' = "step"
    /\ UNCHANGED <<conversation_history, now, files, task, idx, successful_steps,
                   failed_steps, result, raised, returned, tool_result, tool_call,
                   plan_reply, summary_reply, held, executed>>

\* execute_step, lines 157-185, and the tally of lines 205-208
ExecuteStepFinish(env) ==
    /\ UNCHANGED sent
    /\ UNCHANGED handed
    /\ UNCHANGED setup
    /\ last' = "call"
    /\ shown' = None
    /\ UNCHANGED saved
    /\ pc = "step"
    /\ calls' = IF Invokes(steps[cur]) THEN Append(calls, Invocation("tool", cur)) ELSE calls
    /\ fs' = StepFs(steps[cur], env)
    /\ cwd' = StepCwd(steps[cur], env)
    /\ wrote' = StepWrote(steps[cur], env)
    /\ LET r == execute_step(steps[cur], env)
       IN  /\ steps' = [steps EXCEPT ![cur] = r.step]
           /\ returned' = Some(r.value)
           /\ tool_result' = r.invoked
           /\ successful_steps' = NextSuccessful(r.value, successful_steps)
           /\ failed_steps' = NextFailed(r.value, failed_steps)
           /\ idx' = NextIdx(r.value, idx, Len(steps))
    /\ executed' = [executed EXCEPT ![cur] = @ + 1]
    /\ pc' = "loop"
    /\ UNCHANGED <<conversation_history, now, files, task, cur, result, raised,
                   tool_call, plan_reply, summary_reply, held>>

\* execute_task, lines 212-234: summary, result, closing transcript entry
ExecuteTaskFinish(reply) ==
    /\ sent' = SummaryMessages(task, steps)
    /\ UNCHANGED handed
    /\ calls' = Append(calls, Invocation("summary", 0))
    /\ UNCHANGED setup
    /\ last' = "call"
    /\ shown' = None
    /\ UNCHANGED saved
    /\ UNCHANGED disk
    /\ pc = "loop"
    /\ idx > Len(steps)
    /\ summary_reply' = reply
    /\ result' = Some([task |-> task,
                       steps |-> ResultSteps(steps),
                       summary |-> generate_summary(task, steps, reply),
                       successful_steps |-> successful_steps,
                       failed_steps |-> failed_steps,
                       total_steps |-> Len(steps),
                       timestamp |-> now])
    /\ conversation_history' = add_message(conversation_history, "assistant",
                                   TallyText(successful_steps, failed_steps), now)
    /\ now' = Tick
    /\ raised' = FALSE
    /\ pc' = "idle"
    /\ UNCHANGED <<files, task, steps, idx, cur, successful_steps, failed_steps, returned,
                   tool_result, tool_call, plan_reply, held, executed>>

\* AIAgent.clear_history (the shell's "clear"): list.clear(), dict.clear();
\* a str has no clear() and the AttributeError leaves the transcript
ClearHistory ==
    /\ UNCHANGED sent
    /\ handed' = IF conversation_history.kind = "string" THEN handed ELSE Detach(handed)
    /\ UNCHANGED calls
    /\ UNCHANGED setup
    /\ pc = "idle"
    /\ UNCHANGED disk
    /\ conversation_history' =
           IF conversation_history.kind = "string" THEN conversation_history
           ELSE [conversation_history EXCEPT !.items = <<>>]
    /\ last' = "clear"
    /\ shown' = None
    /\ UNCHANGED <<now, files, pc, task, steps, idx, cur, successful_steps, failed_steps,
                   result, raised, returned, tool_result, tool_call, plan_reply,
                   summary_reply, held, executed, saved>>

\* the shell's "history": main.py 153-154
GetHistory ==
    /\ UNCHANGED sent
    /\ UNCHANGED handed
    /\ UNCHANGED calls
    /\ UNCHANGED setup
    /\ pc = "idle"
    /\ UNCHANGED disk
    /\ shown' = IF conversation_history.kind = "string" THEN Some(AttributeError)
                ELSE Some(get_conversation_history(conversation_history))
    /\ last' = "history"
    /\ UNCHANGED <<conversation_history, now, files, pc, task, steps, idx, cur,
                   successful_steps, failed_steps, result, raised, returned, tool_result,
                   tool_call, plan_reply, summary_reply, held, executed, saved>>

\* main.save_history; an error while copying or writing is caught and
\* leaves the file
SaveHistory(f, env) ==
    /\ UNCHANGED sent
    /\ UNCHANGED handed
    /\ UNCHANGED calls
    /\ UNCHANGED setup
    /\ pc = "idle"
    /\ UNCHANGED disk
    /\ LET ok == env = "ok" /\ conversation_history.kind # "string"
       IN  /\ files' = IF ok
                       THEN [files EXCEPT
                               ![f] = JsonDump(get_conversation_history(conversation_history))]
                       ELSE files
           /\ saved' = IF ok THEN Some(conversation_history) ELSE saved
    /\ last' = "save"
    /\ shown' = None
    /\ UNCHANGED <<conversation_history, now, pc, task, steps, idx, cur, successful_steps,
                   failed_steps, result, raised, returned, tool_result, tool_call,
                   plan_reply, summary_reply, held, executed>>

\* main.load_history; a missing file is caught and leaves the transcript
LoadHistory(f) ==
    /\ UNCHANGED sent
    /\ handed' = IF files[f].kind = "absent" THEN handed ELSE Detach(handed)
    /\ UNCHANGED calls
    /\ UNCHANGED setup
    /\ pc = "idle"
    /\ UNCHANGED disk
    /\ conversation_history' = IF files[f].kind = "absent" THEN conversation_history
                               ELSE JsonLoad(files[f])
    /\ last' = "load"
    /\ shown' = None
    /\ UNCHANGED <<now, files, pc, task, steps, idx, cur, successful_steps, failed_steps,
                   result, raised, returned, tool_result, tool_call, plan_reply,
                   summary_reply, held, executed, saved>>

Next ==
    \/ \E t \in Tasks : ExecuteTaskBegin(t)
    \/ \E reply \in PlanReplies : ExecuteTaskPlan(reply)
    \/ ExecuteStepStart
    \/ \E env \in Envs : ExecuteStepFinish(env)
    \/ \E reply \in SummaryReplies : ExecuteTaskFinish(reply)
    \/ ClearHistory
    \/ GetHistory
    \/ \E env \in {"ok", "oserror"} : SaveHistory("history.json", env)
    \/ \E f \in Files : LoadHistory(f)

Spec == Init /\ [][Next]_vars

\* ------------------------------------------- a client of the class API
\* The shell never calls these methods itself, but AIAgent's methods are
\* public.  The client asks for one plan and runs its steps in any order,
\* each at most MaxCalls times.
MaxCalls == 2

\* agent.plan_task(task) called by the client
PlanTaskCall(t, reply) ==
    /\ sent' = PlanMessages(t)
    /\ UNCHANGED handed
    /\ UNCHANGED calls
    /\ UNCHANGED setup
    /\ last' = "call"
    /\ shown' = None
    /\ UNCHANGED saved
    /\ UNCHANGED disk
    /\ pc = "idle"
    /\ ~held
    /\ now + 1 <= MaxClock
    /\ held' = TRUE
    /\ task' = t
    /\ plan_reply' = reply
    /\ steps' = plan_task(t, reply, conversation_history.kind = "list")
    /\ executed' = [i \in 1..Len(steps') |-> 0]
    /\ conversation_history' = LogReply(reply)
    /\ now' = IF reply.kind # "raise" /\ conversation_history.kind = "list" THEN Tick ELSE now
    /\ tool_result' = None
    /\ tool_call' = None
    /\ UNCHANGED <<files, pc, idx, cur, successful_steps, failed_steps, result, raised,
                   returned, summary_reply>>

\* agent.execute_step(step) called by the client: line 155
ExecuteStepCallStart(i) ==
    /\ UNCHANGED sent
    /\ UNCHANGED handed
    /\ UNCHANGED calls
    /\ UNCHANGED setup
    /\ last' = "call"
    /\ shown' = None
    /\ UNCHANGED saved
    /\ UNCHANGED disk
    /\ pc = "idle"
    /\ held
    /\ i \in 1..Len(steps)
    /\ executed[i] < MaxCalls
    /\ cur' = i
    /\ steps' = [steps EXCEPT ![i].status = "running"]
    /\ pc' = "call"
    /\ UNCHANGED <<conversation_history, now, files, task, idx, successful_steps,
                   failed_steps, result, raised, returned, tool_result, tool_call,
                   plan_reply, summary_reply, held, executed>>

\* lines 157-185 of that call
ExecuteStepCallFinish(env) ==
    /\ UNCHANGED sent
    /\ UNCHANGED handed
    /\ UNCHANGED calls
    /\ UNCHANGED setup
    /\ last' = "call"
    /\ shown' = None
    /\ UNCHANGED saved
    /\ pc = "call"
    /\ fs' = StepFs(steps[cur], env)
    /\ cwd' = StepCwd(steps[cur], env)
    /\ wrote' = StepWrote(steps[cur], env)
    /\ LET r == execute_step(steps[cur], env)
       IN  /\ steps' = [steps EXCEPT ![cur] = r.step]
           /\ returned' = Some(r.value)
           /\ tool_result' = r.invoked
    /\ executed' = [executed EXCEPT ![cur] = @ + 1]
    /\ pc' = "idle"
    /\ UNCHANGED <<conversation_history, now, files, task, idx, cur, successful_steps,
                   failed_steps, result, raised, tool_call, plan_reply, summary_reply, held>>

NextApi ==
    \/ \E t \in Tasks, reply \in PlanReplies : PlanTaskCall(t, reply)
    \/ \E i \in 1..MaxSteps : ExecuteStepCallStart(i)
    \/ \E env \in Envs : ExecuteStepCallFinish(env)
    \/ ClearHistory
    \/ \E f \in Files : LoadHistory(f)

SpecApi == Init /\ [][NextApi]_vars

\* ------------------------------------------- a client of the registry
\* test_basic.py and the examples build a ToolManager and call it directly.
ToolNames == tools \cup {"nosuch"}

Paths == {"a.txt", "/tmp/a.txt"}

Contents == {"Hello", "a\r\nb"}

Expressions ==
    {"1", "2 + 3 * 4", "(2 + 3) * 4", "abs(-5) + max(2, 3)", "2 +", "1 // 0",
     "__import__('os')", "1 or __import__('os')", "0 or __import__('os')", "eval('1')"}

\* the keywords a caller passes to each tool: well-formed calls, calls that
\* miss a keyword or add one, and a keyword named like execute_tool's own
KwArgs(name) ==
    { {}, {<<"tool_name", "math">>} } \cup
    CASE name = "terminal" ->
            { {<<"command", "ls">>}, {<<"command", "echo test">>, <<"cwd", "/tmp">>},
              {<<"command", "ls">>, <<"cwd", "/nodir">>}, {<<"cwd", "/tmp">>} }
      [] name = "file" ->
            { {<<"action", "write">>, <<"file_path", "a.txt">>},
              {<<"action", "delete">>, <<"file_path", "a.txt">>} }
            \cup { {<<"action", a>>, <<"file_path", p>>} :
                      a \in {"read", "exists"}, p \in Paths }
            \cup { {<<"action", "write">>, <<"file_path", p>>, <<"content", c>>} :
                      p \in Paths, c \in Contents }
      [] name = "web" ->
            { {<<"method", "GET">>, <<"url", "http://h/">>},
              {<<"method", "put">>, <<"url", "http://h/">>} }
      [] name = "math" ->
            { {<<"expression", "1">>, <<"precision", "2">>} }
            \cup { {<<"expression", e>>} : e \in Expressions }
      [] OTHER -> { {<<"command", "ls">>} }

\* the answers of the environment that a tool can meet: a command ends with
\* zero or not, runs too long or cannot start; a file access or a request is
\* granted or not; eval and the registry meet none
ToolEnvs(name) ==
    CASE name = "terminal" -> Envs
      [] name = "file"     -> {"ok", "oserror"}
      [] name = "web"      -> {"ok", "fail"}
      [] OTHER             -> {"ok"}

\* tool_manager.execute_tool(name, kwargs), as test_basic.py 52-64 calls it
ExecuteToolCall(name, kv, env) ==
    /\ UNCHANGED sent
    /\ UNCHANGED handed
    /\ UNCHANGED calls
    /\ pc = "idle"
    /\ tool_call' = Some([name |-> name, kv |-> kv, env |-> env])
    /\ tool_result' = Some(execute_tool(name, kv, env))
    /\ fs' = execute_tool_fs(name, kv, env)
    /\ cwd' = execute_tool_cwd(name, kv, env)
    /\ wrote' = execute_tool_wrote(name, kv, env)
    /\ last' = "call"
    /\ catalog' = None
    /\ described' = None
    /\ UNCHANGED <<model_provider, model_config>>
    /\ UNCHANGED <<conversation_history, now, files, pc, task, steps, idx, cur,
                   successful_steps, failed_steps, result, raised, returned, plan_reply,
                   summary_reply, held, executed, shown, saved>>

\* tool_manager.list_tools(), as test_basic.py 47 and main.print_tools call it
ListToolsCall ==
    /\ UNCHANGED sent
    /\ UNCHANGED handed
    /\ UNCHANGED calls
    /\ pc = "idle"
    /\ catalog' = Some(list_tools)
    /\ described' = None
    /\ tool_call' = None
    /\ tool_result' = None
    /\ last' = "call"
    /\ UNCHANGED <<conversation_history, now, files, pc, task, steps, idx, cur,
                   successful_steps, failed_steps, result, raised, returned, plan_reply,
                   summary_reply, held, executed, shown, saved, model_provider,
                   model_config>>
    /\ UNCHANGED disk

\* tool_manager.get_tools_description(), as agent.py 89 calls it
DescribeToolsCall ==
    /\ UNCHANGED sent
    /\ UNCHANGED handed
    /\ UNCHANGED calls
    /\ pc = "idle"
    /\ described' = Some(get_tools_description)
    /\ catalog' = None
    /\ tool_call' = None
    /\ tool_result' = None
    /\ last' = "call"
    /\ UNCHANGED <<conversation_history, now, files, pc, task, steps, idx, cur,
                   successful_steps, failed_steps, result, raised, returned, plan_reply,
                   summary_reply, held, executed, shown, saved, model_provider,
                   model_config>>
    /\ UNCHANGED disk

\* AIAgent(model_provider): a new agent with a new registry and an empty
\* transcript, in the same process
NewAgent(provider) ==
    /\ UNCHANGED sent
    /\ UNCHANGED handed
    /\ UNCHANGED calls
    /\ pc = "idle"
    /\ model_provider' = provider
    /\ model_config' = get_model_config(provider)
    /\ conversation_history' = [kind |-> "list", items |-> <<>>]
    /\ task' = ""
    /\ steps' = <<>>
    /\ executed' = <<>>
    /\ idx' = 0
    /\ cur' = 0
    /\ successful_steps' = 0
    /\ failed_steps' = 0
    /\ result' = None
    /\ raised' = FALSE
    /\ returned' = None
    /\ plan_reply' = NoContent
    /\ summary_reply' = NoContent
    /\ held' = FALSE
    /\ tool_call' = None
    /\ tool_result' = None
    /\ catalog' = None
    /\ described' = None
    /\ shown' = None
    /\ last' = "start"
    /\ UNCHANGED <<now, files, pc, saved>>
    /\ UNCHANGED disk

NextTools ==
    \/ ListToolsCall
    \/ DescribeToolsCall
    \/ \E provider \in Providers : NewAgent(provider)
    \/ \E name \in ToolNames : \E kv \in KwArgs(name), env \in ToolEnvs(name) :
           ExecuteToolCall(name, kv, env)

SpecTools == Init /\ [][NextTools]_vars

\* ---------------------------------------- a client of the transcript
\* A caller that adds messages, asks for the transcript and then works on
\* the list it was given.
MaxHanded == 2

\* the rest of the agent and of the machine, untouched by these calls
rest == <<now, files, pc, task, steps, idx, cur, successful_steps, failed_steps, result,
          raised, returned, tool_result, tool_call, plan_reply, summary_reply, held,
          executed, saved, calls, sent>>

\* the values a caller writes
Edits ==
    [role |-> "system", content |-> Text(<<Tok("edited")>>), timestamp |-> MaxClock + 1]

\* agent.add_message(role, content) called directly
AddMessageCall(role, content) ==
    /\ pc = "idle"
    /\ conversation_history.kind = "list"
    /\ now < MaxClock
    /\ conversation_history' = add_message(conversation_history, role, content, now)
    /\ now' = Tick
    /\ last' = "call"
    /\ shown' = None
    /\ UNCHANGED <<files, pc, task, steps, idx, cur, successful_steps, failed_steps, result,
                   raised, returned, tool_result, tool_call, plan_reply, summary_reply,
                   held, executed, saved, calls, handed, sent>>
    /\ UNCHANGED disk
    /\ UNCHANGED setup

\* history = agent.get_conversation_history(): a str has no copy()
GetHistoryCall ==
    /\ pc = "idle"
    /\ handed' = IF conversation_history.kind = "string" THEN None
                 ELSE Some(Share(get_conversation_history(conversation_history)))
    /\ last' = "call"
    /\ shown' = None
    /\ UNCHANGED conversation_history
    /\ UNCHANGED rest
    /\ UNCHANGED disk
    /\ UNCHANGED setup

\* history.append(entry) on the list handed out
CallerAppend ==
    /\ pc = "idle"
    /\ handed # None
    /\ handed[1].kind = "list"
    /\ Len(handed[1].items) < MaxHanded
    /\ handed' = Some([handed[1] EXCEPT !.items = Append(@, [ref |-> 0, val |-> Edits])])
    /\ last' = "edit"
    /\ shown' = None
    /\ UNCHANGED conversation_history
    /\ UNCHANGED rest
    /\ UNCHANGED disk
    /\ UNCHANGED setup

\* history.pop() on the list handed out
CallerRemove ==
    /\ pc = "idle"
    /\ handed # None
    /\ handed[1].kind = "list"
    /\ handed[1].items # <<>>
    /\ handed' = Some([handed[1] EXCEPT !.items = SubSeq(@, 1, Len(@) - 1)])
    /\ last' = "edit"
    /\ shown' = None
    /\ UNCHANGED conversation_history
    /\ UNCHANGED rest
    /\ UNCHANGED disk
    /\ UNCHANGED setup

\* an entry with one field overwritten
SetField(e, field) ==
    CASE field = "role"      -> [e EXCEPT !.role = Edits.role]
      [] field = "content"   -> [e EXCEPT !.content = Edits.content]
      [] field = "timestamp" -> [e EXCEPT !.timestamp = Edits.timestamp]

\* history[j][field] = value on the list handed out: the entry object is
\* written, in whichever lists it is
CallerSet(j, field) ==
    /\ pc = "idle"
    /\ handed # None
    /\ handed[1].kind = "list"
    /\ j \in 1..Len(handed[1].items)
    /\ handed' = Some([handed[1] EXCEPT !.items[j].val = SetField(@, field)])
    /\ conversation_history' =
           IF handed[1].items[j].ref = 0 THEN conversation_history
           ELSE [conversation_history EXCEPT
                    !.items[handed[1].items[j].ref] = SetField(@, field)]
    /\ last' = "edit"
    /\ shown' = None
    /\ UNCHANGED rest
    /\ UNCHANGED disk
    /\ UNCHANGED setup

NextHistory ==
    \/ \E role \in {"user", "assistant"} : AddMessageCall(role, Text(<<Tok("hello")>>))
    \/ GetHistoryCall
    \/ CallerAppend
    \/ CallerRemove
    \/ \E j \in 1..MaxHanded, field \in {"role", "content", "timestamp"} : CallerSet(j, field)
    \/ ClearHistory
    \/ \E f \in Files : LoadHistory(f)

SpecHistory == Init /\ [][NextHistory]_vars

\* ============================================================ properties
Terminal == {"completed", "failed"}

\* a call of plan_task has returned the list held in steps
PlanReturned == pc \in {"loop", "step", "call"} \/ held \/ result # None

\* execute_step has returned from running step cur
StepReturned == cur # 0 /\ cur <= Len(steps) /\ pc \in {"loop", "idle"}

\* the message m contains the string x as one of its parts
Mentions(m, x) == \E k \in 1..Len(m) : m[k] = x

\* C1: whatever the backend answers, plan_task returns at least one step.
PlanNeverEmpty == PlanReturned => Len(steps) >= 1

\* C2: in the result of execute_task the tallies add up to the number of
\* steps: successful_steps + failed_steps = total_steps = len(steps).
ResultTallies ==
    result # None =>
        /\ result[1].successful_steps + result[1].failed_steps = result[1].total_steps
        /\ result[1].total_steps = Len(result[1].steps)

ResultTalliesWitness ==
    /\ result # None
    /\ result[1].successful_steps >= 1
    /\ result[1].failed_steps >= 1

\* C3: after any sequence of session operations a call of execute_task ends
\* by returning a result, never by raising.
ExecuteTaskReturns == (pc = "idle" /\ task # "") => (~raised /\ result # None)

\* C4: a step's status only moves pending -> running -> completed | failed,
\* and once it is completed or failed no call writes the step again.
StepLifecycle ==
    [][\A i \in 1..Len(steps) :
          i <= Len(steps') =>
              /\ \/ steps'[i].status = steps[i].status
                 \/ <<steps[i].status, steps'[i].status>> \in
                        {<<"pending", "running">>, <<"running", "completed">>,
                         <<"running", "failed">>}
              /\ steps[i].status \in Terminal => steps'[i] = steps[i]]_vars

\* C5: execute_step on a step without tool_name ends completed, with the
\* acknowledgement as result, returns true and invokes no tool.
NoToolCompletes ==
    (StepReturned /\ steps[cur].tool_name = None) =>
        /\ steps[cur].status = "completed"
        /\ steps[cur].result = Some(Ack)
        /\ returned = Some(TRUE)
        /\ tool_result = None

NoToolCompletesWitness ==
    /\ StepReturned
    /\ steps[cur].tool_name = None
    /\ steps[cur].parameters.kv # {}
    /\ steps[cur].status = "completed"

\* C6: execute_step on a step naming a tool that is not registered ends
\* failed, with an error that contains the unknown name.
UnknownToolFails ==
    (StepReturned /\ Truthy(steps[cur].tool_name) /\ steps[cur].tool_name[1] \notin tools) =>
        /\ steps[cur].status = "failed"
        /\ steps[cur].error # None
        /\ Mentions(steps[cur].error[1], steps[cur].tool_name[1])

\* C7: execute_tool returns an outcome with a success flag for every name and
\* every keyword mapping, a failure with an error for an unknown name, and
\* never raises.
ExecuteToolReturnsOutcome ==
    tool_call # None =>
        /\ tool_result # None
        /\ ~tool_result[1].exc
        /\ "success" \in tool_result[1].keys
        /\ tool_call[1].name \notin tools =>
               /\ ~tool_result[1].success
               /\ "error" \in tool_result[1].keys

\* C8: when execute_task returns, every step of the plan was executed exactly
\* once and is completed or failed, also the steps after a failed one.
NoShortCircuit ==
    result # None =>
        /\ Len(result[1].steps) = Len(steps)
        /\ \A i \in 1..Len(steps) :
              /\ executed[i] = 1
              /\ steps[i].status \in Terminal
              /\ result[1].steps[i].status \in Terminal

NoShortCircuitWitness ==
    /\ result # None
    /\ Len(steps) >= 2
    /\ steps[1].status = "failed"
    /\ steps[2].status = "completed"

\* C9: when the invocation of the tool raises, execute_step sets the step to
\* failed with the exception's message as error and returns false; nothing
\* is raised to the caller.
RaisedInvocationFails ==
    (StepReturned /\ tool_result # None /\ tool_result[1].exc) =>
        /\ steps[cur].status = "failed"
        /\ steps[cur].error = Some(tool_result[1].error)
        /\ returned = Some(FALSE)
        /\ ~raised

RaisedInvocationFailsWitness ==
    /\ StepReturned
    /\ tool_result # None
    /\ tool_result[1].exc
    /\ steps[cur].parameters.kind = "list"
    /\ steps[cur].status = "failed"

\* C10: when the backend fails on the summarization call, the summary of the
\* result is the local one, and its completed and failed counts are the
\* numbers of completed and failed steps and the tallies of the result.
LocalSummary ==
    (result # None /\ summary_reply = BackendError) =>
        /\ result[1].summary = TallyText(result[1].successful_steps, result[1].failed_steps)
        /\ result[1].successful_steps = CountStatus(result[1].steps, "completed")
        /\ result[1].failed_steps = CountStatus(result[1].steps, "failed")

LocalSummaryWitness ==
    /\ result # None
    /\ summary_reply = BackendError
    /\ result[1].successful_steps >= 1
    /\ result[1].failed_steps >= 1

\* the failures of planning the claim lists: backend error, empty reply,
\* reply empty once the fences are removed, text that is not one JSON
\* document, an array with an element lacking step_id or description
PlanningFails(reply) ==
    \/ reply.kind = "raise"
    \/ /\ reply.kind = "text"
       /\ \/ strip(reply.text) = <<>>
          \/ strip(StripFences(strip(reply.text))) = <<>>
          \/ ~JsonOk(strip(StripFences(strip(reply.text))))
          \/ LET d == strip(StripFences(strip(reply.text)))[1]
             IN  /\ d.c = "array"
                 /\ \E i \in 1..Len(d.v) :
                        ~({"step_id", "description"} \subseteq d.v[i].keys)

\* plan_task has just returned to execute_task
JustPlanned == pc = "loop" /\ idx = 1

\* C11: when planning fails, plan_task returns exactly one step, without
\* tool, with empty parameters, pending, whose description contains the task;
\* no step parsed before the failure is returned.
FallbackOnFailure ==
    (JustPlanned /\ PlanningFails(plan_reply)) =>
        /\ Len(steps) = 1
        /\ steps[1].tool_name = None
        /\ steps[1].parameters = Dict({})
        /\ steps[1].status = "pending"
        /\ steps[1].result = None
        /\ steps[1].error = None
        /\ Mentions(steps[1].description, task)

FallbackOnFailureWitness ==
    /\ JustPlanned
    /\ plan_reply.kind = "text"
    /\ Len(plan_reply.text) = 1
    /\ plan_reply.text[1].c = "array"
    /\ Len(plan_reply.text[1].v) = 2
    /\ {"step_id", "description"} \subseteq plan_reply.text[1].v[1].keys
    /\ "step_id" \notin plan_reply.text[1].v[2].keys
    /\ Len(steps) = 1
    /\ Mentions(steps[1].description, task)

IsPrefix(s, t) == Len(s) <= Len(t) /\ SubSeq(t, 1, Len(s)) = s

EmptyTranscript == [kind |-> "list", items |-> <<>>]

\* C12: no session operation other than clear removes, replaces or reorders
\* transcript entries: every other step leaves the old entries as a prefix.
AppendOnly ==
    [][~ClearHistory =>
          IsPrefix(conversation_history.items, conversation_history'.items)]_vars

\* C13: loading the file that save_history wrote yields the transcript that
\* was saved: same entries, same order, same role, content and timestamp.
RoundTrip ==
    [][(LoadHistory("history.json") /\ saved # None) =>
          conversation_history' = saved[1]]_vars

RoundTripWitness ==
    /\ last = "load"
    /\ saved # None
    /\ conversation_history = saved[1]
    /\ Len(conversation_history.items) >= 3
    /\ \E i \in 1..Len(conversation_history.items) :
           conversation_history.items[i].content = NoContent

\* C14: after clear_history the transcript read by get_conversation_history
\* is the empty sequence, and a second clear_history leaves it empty.
ClearEmpties ==
    [][/\ (last = "clear" /\ GetHistory) => shown' = Some(EmptyTranscript)
       /\ ClearHistory => conversation_history' = EmptyTranscript]_vars

\* the last direct call reached the body of this provider with this action
ToolCalled(name) ==
    tool_call # None /\ tool_call[1].name = name /\ Enters(name, tool_call[1].kv)

FileCalled(action) ==
    ToolCalled("file") /\ KwGet(tool_call[1].kv, "action") = Some(action)

CalledPath == Resolve(KwGet(tool_call[1].kv, "file_path")[1])

\* C15: a read that follows a successful write of the same file (the system
\* granting the access) succeeds with exactly the string last written.
WriteReadRoundTrip ==
    (FileCalled("read") /\ tool_call[1].env = "ok" /\ wrote[CalledPath] # None) =>
        /\ tool_result[1].success
        /\ tool_result[1].content = Some(chars(wrote[CalledPath][1]))

\* the answer to action=exists: success with the flag telling whether the
\* path names a file
ExistsAnswer ==
    FileCalled("exists") =>
        /\ ~tool_result[1].exc
        /\ tool_result[1].success
        /\ "exists" \in tool_result[1].keys
        /\ tool_result[1].exists = Some(fs[CalledPath] # None)

\* the answer to action=read on a path without file: a failure with a message
ReadMissingAnswer ==
    (FileCalled("read") /\ fs[CalledPath] = None) =>
        /\ ~tool_result[1].exc
        /\ "success" \in tool_result[1].keys /\ ~tool_result[1].success
        /\ "error" \in tool_result[1].keys /\ tool_result[1].error # <<>>

\* C16: action=exists returns success true with the exists flag telling
\* whether the path exists, action=read of a missing path returns success
\* false with an error message, and neither changes the files.
FileQueries ==
    [][/\ ExistsAnswer'
       /\ ReadMissingAnswer'
       /\ (FileCalled("exists")' \/ FileCalled("read")') => fs' = fs]_vars

FileQueriesWitness ==
    /\ FileCalled("exists")
    /\ tool_call[1].kv = {<<"action", "exists">>, <<"file_path", "a.txt">>}
    /\ cwd = "/tmp"
    /\ tool_result[1].exists = Some(TRUE)
    /\ fs[<<"/work", "a.txt">>] = None

\* the command of the last terminal call was started
CommandRan ==
    LET c == KwGet(tool_call[1].kv, "cwd")
    IN  ~Truthy(c) \/ (c[1] \in Dirs /\ tool_call[1].env # "oserror")

\* C18: a terminal outcome has success true exactly when the command ended
\* within the timeout with return code zero, stdout then holding its output;
\* a command that exceeds the timeout is returned as a failure outcome with
\* the timeout error, not raised.
TerminalClassification ==
    ToolCalled("terminal") =>
        /\ ~tool_result[1].exc
        /\ "success" \in tool_result[1].keys
        /\ tool_result[1].success <=> (CommandRan /\ tool_call[1].env = "ok")
        /\ tool_result[1].success <=> tool_result[1].return_code = Some(0)
        /\ tool_result[1].success =>
               /\ "stdout" \in tool_result[1].keys
               /\ tool_result[1].stdout = Some(captured(KwGet(tool_call[1].kv, "command")[1]))
        /\ (CommandRan /\ tool_call[1].env = "timeout") =>
               /\ ~tool_result[1].success
               /\ "error" \in tool_result[1].keys
               /\ tool_result[1].error = <<"command timed out">>

TerminalClassificationWitness ==
    /\ ToolCalled("terminal")
    /\ tool_call[1].env = "timeout"
    /\ KwGet(tool_call[1].kv, "cwd") = Some("/tmp")
    /\ cwd = "/tmp"
    /\ ~tool_result[1].success
    /\ tool_result[1].error = <<"command timed out">>

\* the arithmetic value of the expressions over numbers and allowed functions
Arithmetic == {"1", "2 + 3 * 4", "(2 + 3) * 4", "abs(-5) + max(2, 3)"}

ArithmeticValue(e) ==
    CASE e = "1" -> 1 [] e = "2 + 3 * 4" -> 14 [] e = "(2 + 3) * 4" -> 20
      [] e = "abs(-5) + max(2, 3)" -> 8

\* the expression refers to a name that is not on the allow-list
RefersOutside(e) ==
    \E k \in 1..Len(Lex(e)) : IsName(Lex(e)[k]) /\ Lex(e)[k] \notin allowed_names

CalledExpression == KwGet(tool_call[1].kv, "expression")[1]

\* C17: the math tool returns the arithmetic value of an arithmetic
\* expression with success true, and success false, without raising, for
\* every expression that refers to a name outside the allow-list.
MathEvaluates ==
    ToolCalled("math") =>
        /\ ~tool_result[1].exc
        /\ CalledExpression \in Arithmetic =>
               /\ tool_result[1].success
               /\ tool_result[1].result = Some(IntV(ArithmeticValue(CalledExpression)))
        /\ RefersOutside(CalledExpression) => ~tool_result[1].success

ListedNames == {list_tools[k].name : k \in 1..Len(list_tools)}

UnknownTool(name) == Outcome({"success", "error"}, FALSE, <<"tool does not exist: ", name>>)

\* the last direct call bound the parameters of execute_tool itself
Bound == tool_call # None /\ ~KwHas(tool_call[1].kv, "tool_name") /\ ~KwHas(tool_call[1].kv, "self")

\* C19: list_tools holds one name/description entry per registered tool
\* (terminal, file, web and math among them), get_tools_description mentions
\* every tool name and every parameter name, and a name is listed exactly
\* when execute_tool hands it to a provider instead of answering with the
\* unknown-tool failure.
CatalogConsistent ==
    /\ catalog # None =>
           /\ Len(catalog[1]) = Cardinality(tools)
           /\ {catalog[1][k].name : k \in 1..Len(catalog[1])} = tools
           /\ {"terminal", "file", "web", "math"} \subseteq tools
           /\ \A k \in 1..Len(catalog[1]) :
                  catalog[1][k].description = tool_description(catalog[1][k].name)
    /\ described # None =>
           \A n \in tools :
               /\ Mentions(described[1], n)
               /\ \A k \in 1..Len(get_parameters_info(n)) :
                      Mentions(described[1], get_parameters_info(n)[k][1])
    /\ \A n \in ToolNames : n \in ListedNames <=> get_tool(n) # None
    /\ Bound =>
           (tool_call[1].name \in ListedNames <=>
                tool_result[1] # UnknownTool(tool_call[1].name))

CatalogConsistentWitness ==
    /\ catalog # None
    /\ Len(catalog[1]) = 4
    /\ catalog[1][4].name = "math"
    /\ cwd = "/tmp"

\* C20: get_model_config(p) has provider p for openai, ollama and deepseek
\* and is the default openai configuration for every other string, so the
\* agent's configuration always names a provider chat_completion supports.
ConfigSupported ==
    /\ model_provider \in {"openai", "ollama", "deepseek"} =>
           model_config.provider = model_provider
    /\ model_provider \notin {"openai", "ollama", "deepseek"} =>
           model_config = DEFAULT_MODEL
    /\ DEFAULT_MODEL.provider = "openai"
    /\ model_config.provider \in {"openai", "ollama", "deepseek"}
    /\ chat_completion(model_config) # "ValueError"

ConfigSupportedWitness ==
    /\ model_provider = "azure"
    /\ model_config = DEFAULT_MODEL
    /\ fs[<<"/tmp", "a.txt">>] # None

\* ------------------------------------------------------------------ C21
\* the steps of the current plan whose status is "running"
Running == {i \in 1..Len(steps) : steps[i].status = "running"}

\* the plan as plan_task returned it to execute_task
Planned == plan_task(task, plan_reply, TRUE)

SameStep(a, b) ==
    /\ a.step_id = b.step_id
    /\ a.description = b.description
    /\ a.tool_name = b.tool_name
    /\ a.parameters = b.parameters

\* C21: within execute_task at most one step is running, the steps before it
\* are completed or failed and the steps after it are still pending, whatever
\* their step_id values; the steps of the result are in the order of the plan.
StrictSequence ==
    /\ Cardinality(Running) <= 1
    /\ \A k \in 1..(Len(steps) - 1) :
           steps[k].status \notin Terminal => steps[k + 1].status = "pending"
    /\ pc = "step" =>
           /\ cur = idx
           /\ steps[cur].status = "running"
           /\ \A j \in 1..(cur - 1) : steps[j].status \in Terminal
    /\ (pc = "loop" /\ idx <= Len(steps)) =>
           /\ \A j \in 1..(idx - 1) : steps[j].status \in Terminal
           /\ \A j \in idx..Len(steps) : steps[j].status = "pending"
    /\ result # None =>
           /\ Len(result[1].steps) = Len(Planned)
           /\ \A i \in 1..Len(Planned) : SameStep(result[1].steps[i], Planned[i])

\* a result of two steps whose step_id values are not ascending
StrictSequenceWitness ==
    /\ result # None
    /\ Len(result[1].steps) = 2
    /\ result[1].steps[1].step_id > result[1].steps[2].step_id
    /\ \A i \in 1..2 : result[1].steps[i].status \in Terminal

\* ------------------------------------------------------------------ C22
\* C22: when execute_step has returned, the step is completed or failed; the
\* value returned is true exactly when it is completed and false exactly when
\* it is failed.
ReturnMatchesStatus ==
    StepReturned =>
        /\ returned # None
        /\ steps[cur].status \in Terminal
        /\ (returned[1] = TRUE) <=> (steps[cur].status = "completed")
        /\ (returned[1] = FALSE) <=> (steps[cur].status = "failed")

\* a second call on the same step returned false after the tool reported a failure
ReturnMatchesStatusWitness ==
    /\ StepReturned
    /\ executed[cur] = 2
    /\ returned = Some(FALSE)
    /\ steps[cur].status = "failed"
    /\ tool_result # None
    /\ ~tool_result[1].exc

\* ------------------------------------------------------------------ C23
\* execute_step has returned from a step whose tool invocation returned an outcome
OutcomeReturned == StepReturned /\ tool_result # None /\ ~tool_result[1].exc

\* C23: when the invocation of a step's tool returns an outcome, a true
\* success flag leaves the step completed with the outcome as its result; a
\* false or missing flag leaves it failed with the outcome as its result and,
\* as its error, the outcome's error text or the unknown-error string when
\* the outcome has none.
OutcomeDecides ==
    OutcomeReturned =>
        LET o == tool_result[1]
            s == steps[cur]
        IN  /\ Truthy(s.tool_name)
            /\ s.result = Some(o)
            /\ ("success" \in o.keys /\ o.success) =>
                   /\ s.status = "completed"
                   /\ returned = Some(TRUE)
            /\ ("success" \notin o.keys \/ ~o.success) =>
                   /\ s.status = "failed"
                   /\ returned = Some(FALSE)
                   /\ "error" \in o.keys => s.error = Some(o.error)
                   /\ "error" \notin o.keys => s.error = Some(<<"unknown error">>)

\* a command that ended with a non-zero return code: the outcome carries no
\* error text
OutcomeDecidesWitness ==
    /\ OutcomeReturned
    /\ steps[cur].tool_name = Some("terminal")
    /\ tool_result[1].return_code = Some(1)
    /\ "error" \notin tool_result[1].keys
    /\ steps[cur].error = Some(<<"unknown error">>)

\* ------------------------------------------------------------------ C24
\* the language tags a backend writes after the opening fence
Tags == {"json", "JSON"}

\* the tokens between an opening fence (with or without a tag) and a closing fence
Inside(t) ==
    IF Len(t) >= 2 /\ t[1].c = "fence" /\ t[Len(t)].c = "fence"
    THEN IF Len(t) >= 3 /\ t[2].c \in Tags THEN Some(strip(SubSeq(t, 3, Len(t) - 1)))
         ELSE Some(strip(SubSeq(t, 2, Len(t) - 1)))
    ELSE None

\* the reply is a valid array of at least one step inside a pair of fences
FencedArray(reply) ==
    /\ reply.kind = "text"
    /\ Inside(strip(reply.text)) # None
    /\ Len(Inside(strip(reply.text))[1]) = 1
    /\ Inside(strip(reply.text))[1][1].c = "array"
    /\ Inside(strip(reply.text))[1][1].v # <<>>
    /\ BuildSteps(Inside(strip(reply.text))[1][1].v, 1, <<>>).ok

\* the reply is a pair of fences with nothing inside
FencedNothing(reply) ==
    /\ reply.kind = "text"
    /\ Inside(strip(reply.text)) = Some(<<>>)

\* C24: a step array wrapped in an opening fence, with a language tag in any
\* casing or with none, and a closing fence gives the steps of the array
\* alone; a reply with nothing between its fences is a planning failure.
FenceRepair ==
    JustPlanned =>
        /\ FencedArray(plan_reply) =>
               steps = plan_task(task, Text(Inside(strip(plan_reply.text))[1]), TRUE)
        /\ FencedNothing(plan_reply) => steps = Fallback(task)

\* ------------------------------------------------------------------ C25
\* the transcript grew by exactly this entry
Appended(role, content) ==
    /\ Len(conversation_history'.items) = Len(conversation_history.items) + 1
    /\ IsPrefix(conversation_history.items, conversation_history'.items)
    /\ conversation_history'.items[Len(conversation_history'.items)].role = role
    /\ conversation_history'.items[Len(conversation_history'.items)].content = content

\* C25: an execute_task call appends the task as a user entry before it
\* plans and the tallies as an assistant entry when it finishes; planning,
\* the steps and the summarization leave the transcript as it is, so the
\* call appends exactly these two entries and the tallies entry is the last.
TwoEntriesPerTask ==
    [][ /\ (pc = "idle" /\ pc' = "plan") => Appended("user", Text(<<Tok(task')>>))
        /\ (pc = "plan" /\ pc' = "loop") => conversation_history' = conversation_history
        /\ (pc \in {"loop", "step"} /\ pc' \in {"loop", "step"}) =>
               conversation_history' = conversation_history
        /\ (pc = "loop" /\ pc' = "idle") =>
               Appended("assistant", TallyText(successful_steps, failed_steps))
      ]_vars

\* ------------------------------------------------------------------ C26
\* how many entries of calls are this invocation
RECURSIVE Count(_, _)
Count(cs, c) ==
    IF cs = <<>> THEN 0 ELSE (IF Head(cs) = c THEN 1 ELSE 0) + Count(Tail(cs), c)

\* an execute_task call has ended, by returning or by raising
CallEnded == pc = "idle" /\ task # "" /\ ~held

\* C26: an execute_task call invokes the backend exactly once for planning
\* and exactly once for the summary, the latter after every step is
\* completed or failed, and the tool of each step at most once.
SinglePass ==
    /\ Count(calls, Invocation("plan", 0)) <= 1
    /\ Count(calls, Invocation("summary", 0)) <= 1
    /\ \A i \in 1..Len(steps) : Count(calls, Invocation("tool", i)) <= 1
    /\ Count(calls, Invocation("summary", 0)) = 1 =>
           /\ calls[Len(calls)] = Invocation("summary", 0)
           /\ \A i \in 1..Len(steps) : steps[i].status \in Terminal
    /\ CallEnded =>
           /\ Count(calls, Invocation("plan", 0)) = 1
           /\ Count(calls, Invocation("summary", 0)) = 1

\* ------------------------------------------------------------------ C27
\* the reply parses as a JSON array whose elements all supply step_id and
\* description
ParsesAsSteps(reply) ==
    /\ reply.kind = "text"
    /\ LET r == strip(StripFences(strip(reply.text)))
       IN  /\ Len(r) = 1
           /\ r[1].c = "array"
           /\ BuildSteps(r[1].v, 1, <<>>).ok

\* C27: the steps plan_task returns for a reply that parses as an array of
\* step objects have a non-empty description and pairwise different step_id
\* values.
StepsWellFormed ==
    (held /\ ParsesAsSteps(plan_reply)) =>
        /\ \A i \in 1..Len(steps) : steps[i].description \notin {<<>>, <<"">>}
        /\ \A i, j \in 1..Len(steps) : steps[i].step_id = steps[j].step_id => i = j

\* ------------------------------------------------------------------ C28
\* the fields of a step agree with its status
Consistent(s) ==
    /\ s.status = "completed" => (s.result # None /\ s.error = None)
    /\ s.status = "failed" => s.error # None

\* C28: in a result of execute_task a completed step has a result and no
\* error and a failed step has an error; a step failed by a failure the
\* provider reported keeps the whole outcome as its result, a step failed by
\* an exception has no result.  The result lists the steps as execute_step
\* left them.
ResultConsistent ==
    /\ (pc \in {"loop", "step"} \/ result # None) =>
           \A i \in 1..Len(steps) :
               /\ Consistent(steps[i])
               /\ (steps[i].status = "failed" /\ steps[i].result # None) =>
                      /\ ~steps[i].result[1].exc
                      /\ ~GetSuccess(steps[i].result[1])
    /\ (StepReturned /\ tool_result # None /\ steps[cur].status = "failed") =>
           IF tool_result[1].exc THEN steps[cur].result = None
           ELSE steps[cur].result = tool_result
    /\ result # None =>
           /\ Len(result[1].steps) = Len(steps)
           /\ \A i \in 1..Len(steps) :
                  /\ result[1].steps[i].status = steps[i].status
                  /\ result[1].steps[i].result = steps[i].result
                  /\ result[1].steps[i].error = steps[i].error
                  /\ result[1].steps[i].status \in Terminal

\* a result with a step failed by a reported failure and a step failed by an
\* exception
ResultConsistentWitness ==
    /\ result # None
    /\ \E i, j \in 1..Len(result[1].steps) :
           /\ result[1].steps[i].status = "failed"
           /\ result[1].steps[i].result # None
           /\ result[1].steps[j].status = "failed"
           /\ result[1].steps[j].result = None
           /\ result[1].steps[j].error # None

\* ------------------------------------------------------------------ C29
\* C29: whatever a caller does to the value get_conversation_history gave it
\* (appending or removing entries, overwriting the role, content or
\* timestamp of an entry), the transcript of the agent stays as it is.
CopyIsolated == [][last' = "edit" => conversation_history' = conversation_history]_vars

\* ------------------------------------------------------------------ C30
\* C30: the outputs of planning and summarization are those an agent with
\* any other transcript produces from the same task, backend replies and
\* tool outcomes: the messages sent to the backend, the steps returned by
\* the planner, the tallies and the summary are functions of these inputs
\* alone, whatever the transcript holds (also after clear or load).
TranscriptIndependent ==
    /\ PlanReturned =>
           /\ Len(steps) = Len(Planned)
           /\ \A i \in 1..Len(steps) : SameStep(steps[i], Planned[i])
    /\ (JustPlanned \/ held) => sent = PlanMessages(task)
    /\ CallEnded =>
           /\ result # None
           /\ sent = SummaryMessages(task, steps)
           /\ result[1].summary = generate_summary(task, steps, summary_reply)
           /\ result[1].successful_steps = CountStatus(steps, "completed")
           /\ result[1].failed_steps = CountStatus(steps, "failed")

\* ------------------------------------------------------------------ C31
\* execute_step is about to run the terminal tool on step cur
TerminalStep == pc = "step" /\ steps[cur].tool_name = Some("terminal") /\ Invokes(steps[cur])

\* that step supplies cwd
SuppliesCwd == TerminalStep /\ Truthy(KwGet(steps[cur].parameters.kv, "cwd"))

\* the step just run failed because os.chdir raised
ChdirRaised ==
    /\ tool_result' # None
    /\ tool_result'[1].error = <<"[Errno 2] No such file or directory">>

\* execute_step is about to write a file named by a relative path
RelativeWrite ==
    /\ pc = "step"
    /\ steps[cur].tool_name = Some("file")
    /\ Invokes(steps[cur])
    /\ KwGet(steps[cur].parameters.kv, "action") = Some("write")
    /\ KwGet(steps[cur].parameters.kv, "file_path") = Some("a.txt")

====
